---- MODULE Spec2Model ----
(***************************************************************************)
(* Model of internal/fields/dependency_manager.go: the field dependency    *)
(* manager of elastic-package.  Three parts of the file are modelled:      *)
(*   - ImportField and the merge of one external field (SpecResolve),      *)
(*   - InjectFields over a tree of field definitions (SpecInject),         *)
(*   - the cached download of the ECS schema file (SpecLoader, SpecRace).  *)
(* Strings that the code cuts or joins (field paths, Git references) are   *)
(* sequences of one-character strings; map keys, types and messages are    *)
(* plain strings.                                                          *)
(***************************************************************************)
EXTENDS Integers, Sequences, FiniteSets, TLC

VARIABLES dm, defs, pc, res, res2,
          root, def, imp, merged,
          cache, proc, hist, env

vars == <<dm, defs, pc, res, res2, root, def, imp, merged, cache, proc, hist, env>>

(***************************************************************************)
(* Bounds of the model.                                                    *)
(***************************************************************************)
\* Largest number of nodes, at all depths together, of an input field tree.
MaxNodes == 2
\* Largest number of managers one process creates.
MaxRuns == 3
\* The number of writes in which a schema body reaches the cache file.
BodyChunks == 2

(***************************************************************************)
(* common.MapStr: a map from keys to values, a function over the keys      *)
(* that are present.                                                       *)
(***************************************************************************)
Has(m, k) == k \in DOMAIN m

Put(m, k, v) == [x \in (DOMAIN m) \cup {k} |-> IF x = k THEN v ELSE m[x]]

Delete(m, k) == [x \in (DOMAIN m) \ {k} |-> m[x]]

\* Values of d override those of m; none of the modelled values is itself a
\* map, so no key is merged below the first level.
DeepUpdate(m, d) ==
    [x \in (DOMAIN m) \cup (DOMAIN d) |-> IF x \in DOMAIN d THEN d[x] ELSE m[x]]

(***************************************************************************)
(* Strings as sequences of characters.                                     *)
(***************************************************************************)
Dot == "."

HasPrefix(s, p) == Len(s) >= Len(p) /\ SubSeq(s, 1, Len(p)) = p

\* The segments of a dotted path.
RECURSIVE SplitDots(_)
SplitDots(s) ==
    IF \A i \in 1..Len(s) : s[i] # Dot
    THEN <<s>>
    ELSE LET i == CHOOSE j \in 1..Len(s) :
                      s[j] = Dot /\ \A k \in 1..(j - 1) : s[k] # Dot
         IN <<SubSeq(s, 1, i - 1)>> \o SplitDots(SubSeq(s, i + 1, Len(s)))

(***************************************************************************)
(* FieldDefinition and the schemas a DependencyManager can hold.           *)
(***************************************************************************)
NilBool == {}

FD(name, type, descr, multi) ==
    [Name |-> name, Type |-> type, Description |-> descr, Pattern |-> "",
     Index |-> NilBool, DocValues |-> NilBool, Normalize |-> <<>>,
     MultiFields |-> multi]

ZeroFieldDefinition == FD(<<>>, "", "", <<>>)

\* The ECS schema used by the model: a (keyword, described, normalized) with
\* the nested a.a (group), itself with a.a.a (long, indexed), and a.b
\* (constant_keyword).  No definition is named b at the top level.
ecsSchema ==
    << [FD(<<"a">>, "keyword", "outcome",
           << FD(<<"a">>, "group", "",
                 << [FD(<<"a">>, "long", "", <<>>) EXCEPT !.Index = {TRUE}] >>),
              FD(<<"b">>, "constant_keyword", "", <<>>) >>)
        EXCEPT !.Normalize = <<"array">>] >>

ecsSchemaName == "ecs"

\* The managers: none (no build manifest), one built from an empty reference
\* (schema["ecs"] is the nil slice), one holding the ECS schema.
NilDM == [isNil |-> TRUE, schema |-> [n \in {} |-> <<>>]]

DM(schema) == [isNil |-> FALSE, schema |-> [n \in {ecsSchemaName} |-> schema]]

Managers == {NilDM, DM(<<>>), DM(ecsSchema)}

(***************************************************************************)
(* Errors: the cause, what it names, and the messages wrapped around it.   *)
(***************************************************************************)
Err(kind, path, schema) ==
    [kind |-> kind, path |-> path, schema |-> schema, wrap |-> <<>>]

NoErr == Err("none", <<>>, "")

Wrap(err, msg) == [err EXCEPT !.wrap = <<msg>> \o @]

(***************************************************************************)
(* FindElementDefinition: walks the segments of the dotted path, matching  *)
(* the first against the names of the definitions and descending into the  *)
(* nested definitions of the match; the first match wins.  The result is a *)
(* sequence: empty for nil, else the one definition found.                 *)
(***************************************************************************)
RECURSIVE findSegments(_, _)
findSegments(segs, schema) ==
    LET hits == {i \in 1..Len(schema) : schema[i].Name = segs[1]}
    IN IF hits = {}
       THEN <<>>
       ELSE LET d == schema[CHOOSE i \in hits : \A j \in hits : i <= j]
            IN IF Len(segs) = 1
               THEN <<d>>
               ELSE findSegments(Tail(segs), d.MultiFields)

FindElementDefinition(searchedKey, schema) ==
    findSegments(SplitDots(searchedKey), schema)

(***************************************************************************)
(* ImportField.                                                            *)
(***************************************************************************)
\* Variant: the map lookup's ok is not tested; an unknown schema name reads
\* as the nil slice.
ImportFieldNoSchemaCheck(m, schemaName, fieldPath) ==
    IF m.isNil
    THEN [def |-> ZeroFieldDefinition, err |-> Err("not_allowed", fieldPath, "")]
    ELSE LET schema == IF schemaName \in DOMAIN m.schema
                       THEN m.schema[schemaName] ELSE <<>>
             imported == FindElementDefinition(fieldPath, schema)
         IN IF imported = <<>>
            THEN [def |-> ZeroFieldDefinition,
                  err |-> Err("not_found", fieldPath, "")]
            ELSE [def |-> imported[1], err |-> NoErr]

ImportField(m, schemaName, fieldPath) ==
    IF m.isNil
    THEN [def |-> ZeroFieldDefinition, err |-> Err("not_allowed", fieldPath, "")]
    ELSE IF schemaName \notin DOMAIN m.schema
    THEN [def |-> ZeroFieldDefinition,
          err |-> Err("schema_undefined", <<>>, schemaName)]
    ELSE LET imported == FindElementDefinition(fieldPath, m.schema[schemaName])
         IN IF imported = <<>>
            THEN [def |-> ZeroFieldDefinition,
                  err |-> Err("not_found", fieldPath, "")]
            ELSE [def |-> imported[1], err |-> NoErr]

buildFieldPath(r, field) ==
    (IF r # <<>> THEN r \o <<Dot>> ELSE r) \o field["name"]

(***************************************************************************)
(* transformImportedField: the attribute map of an imported definition;    *)
(* unset attributes get no key.                                            *)
(***************************************************************************)
RECURSIVE transformImportedField(_)
transformImportedField(fd) ==
    LET keys == {"name", "type"}
                \cup (IF fd.Description # "" THEN {"description"} ELSE {})
                \cup (IF fd.Pattern # "" THEN {"pattern"} ELSE {})
                \cup (IF fd.Index # NilBool THEN {"index"} ELSE {})
                \cup (IF fd.DocValues # NilBool THEN {"doc_values"} ELSE {})
                \cup (IF Len(fd.Normalize) > 0 THEN {"normalize"} ELSE {})
                \cup (IF Len(fd.MultiFields) > 0 THEN {"multi_fields"} ELSE {})
    IN [k \in keys |->
            CASE k = "name" -> fd.Name
              [] k = "type" -> fd.Type
              [] k = "description" -> fd.Description
              [] k = "pattern" -> fd.Pattern
              [] k = "index" -> CHOOSE b \in fd.Index : TRUE
              [] k = "doc_values" -> CHOOSE b \in fd.DocValues : TRUE
              [] k = "normalize" -> fd.Normalize
              [] k = "multi_fields" ->
                    [i \in 1..Len(fd.MultiFields) |->
                        transformImportedField(fd.MultiFields[i])]]

(***************************************************************************)
(* The merge of an imported definition with the local node that asked for  *)
(* it (the external branch of injectFieldsWithRoot).                       *)
(***************************************************************************)
\* Variant: the local type always wins.
overrideTypeKeepLocal(transformed, imported) == transformed

\* The type may be overridden only from keyword to constant_keyword.
overrideType(transformed, imported) ==
    IF transformed["type"] # "constant_keyword" \/ imported.Type # "keyword"
    THEN [transformed EXCEPT !["type"] = imported.Type]
    ELSE transformed

mergeExternal(imported, d) ==
    overrideType(Delete(DeepUpdate(transformImportedField(imported), d),
                        "external"),
                 imported)

(***************************************************************************)
(* skipField: an empty group is not injected in the built fields.          *)
(***************************************************************************)
skipField(d) ==
    IF Has(d, "type") /\ d["type"] = "group"
    THEN IF Has(d, "fields") THEN Len(d["fields"]) = 0 ELSE TRUE
    ELSE FALSE

(***************************************************************************)
(* injectFieldsWithRoot.  A result is (updated, changed, err); the nil     *)
(* slice is the empty sequence.  injectFrom is the loop from node i on,    *)
(* with the updated nodes and the changed flag so far.                     *)
(***************************************************************************)
Result(fields, changed, err) ==
    [fields |-> fields, changed |-> changed, err |-> err]

\* Variant: a failed import returns what was built so far.
importFailedPartial(updated, changed, err) ==
    Result(updated, changed, Wrap(err, "can't import field"))

\* The return of a failed import: no tree, not changed, the wrapped cause.
importFailed(updated, changed, err) ==
    Result(<<>>, FALSE, Wrap(err, "can't import field"))

\* The end of the loop body: the node is appended unless it is skipped.
appendUnlessSkipped(updated, d) ==
    IF skipField(d) THEN updated ELSE Append(updated, d)

RECURSIVE injectFieldsWithRoot(_, _, _)
RECURSIVE injectFrom(_, _, _, _, _, _)
injectFrom(m, r, ds, i, updated, changed) ==
    IF i > Len(ds)
    THEN Result(updated, changed, NoErr)
    ELSE
      LET d == ds[i]
          fieldPath == buildFieldPath(r, d)
      IN IF Has(d, "external")
         THEN LET got == ImportField(m, d["external"], fieldPath)
              IN IF got.err # NoErr
                 THEN importFailed(updated, changed, got.err)
                 ELSE injectFrom(m, r, ds, i + 1,
                          appendUnlessSkipped(updated, mergeExternal(got.def, d)),
                          TRUE)
         ELSE IF Has(d, "fields")
         THEN LET sub == injectFieldsWithRoot(m, fieldPath, d["fields"])
              IN IF sub.err # NoErr
                 THEN Result(<<>>, FALSE, sub.err)
                 ELSE injectFrom(m, r, ds, i + 1,
                          appendUnlessSkipped(updated, Put(d, "fields", sub.fields)),
                          changed \/ sub.changed)
         ELSE injectFrom(m, r, ds, i + 1, appendUnlessSkipped(updated, d), changed)

injectFieldsWithRoot(m, r, ds) == injectFrom(m, r, ds, 1, <<>>, FALSE)

InjectFields(m, ds) == injectFieldsWithRoot(m, <<>>, ds)

(***************************************************************************)
(* The local field trees given to InjectFields: every forest of at most    *)
(* MaxNodes nodes over the attributes below.  Absent stands for a key the  *)
(* node does not have.                                                     *)
(***************************************************************************)
Absent == "<absent>"

NodeNames == {<<"a">>, <<"b">>}

\* The types a local node declares: in one resolution, and in a tree.
LocalTypes == {Absent, "keyword", "constant_keyword", "group", "long"}

TreeTypes == {Absent, "constant_keyword", "group"}

Node(name, external, type, hasFields, fields) ==
    LET keys == {"name"}
                \cup (IF external # Absent THEN {"external"} ELSE {})
                \cup (IF type # Absent THEN {"type"} ELSE {})
                \cup (IF hasFields THEN {"fields"} ELSE {})
    IN [k \in keys |->
            CASE k = "name" -> name
              [] k = "external" -> external
              [] k = "type" -> type
              [] k = "fields" -> fields]

RECURSIVE Forests(_, _)
RECURSIVE Trees(_, _)
\* The trees of exactly n nodes whose root's external is in exts.
Trees(n, exts) ==
    IF n = 1
    THEN {Node(nm, e, t, h, <<>>) :
            nm \in NodeNames, e \in exts, t \in TreeTypes, h \in BOOLEAN}
    ELSE {Node(nm, e, t, TRUE, f) :
            nm \in NodeNames, e \in exts, t \in TreeTypes,
            f \in Forests(n - 1, exts)}

\* The forests of exactly n nodes.
Forests(n, exts) ==
    IF n = 0
    THEN {<<>>}
    ELSE UNION {{<<t>> \o f : t \in Trees(k, exts), f \in Forests(n - k, exts)} :
                    k \in 1..n}

InputTrees == UNION {Forests(n, {Absent, ecsSchemaName}) : n \in 1..MaxNodes}

(***************************************************************************)
(* SpecInject: InjectFields on a tree, then again on its own result.       *)
(***************************************************************************)
NoResult == Result(<<>>, FALSE, NoErr)

NoImport == [def |-> ZeroFieldDefinition, err |-> NoErr]

NoNode == Node(<<>>, Absent, Absent, FALSE, <<>>)

IdleResolve == root = <<>> /\ def = NoNode /\ imp = NoImport /\ merged = NoNode

IdleInject == defs = <<>> /\ res = NoResult /\ res2 = NoResult

IdleLoader == cache = <<>> /\ proc = <<>> /\ hist = <<>> /\ env = <<>>

InitInject ==
    /\ dm \in Managers
    /\ defs \in InputTrees
    /\ pc = "ready"
    /\ res = NoResult
    /\ res2 = NoResult
    /\ IdleResolve
    /\ IdleLoader

Inject ==
    /\ pc = "ready"
    /\ res' = InjectFields(dm, defs)
    /\ pc' = "injected"
    /\ UNCHANGED <<dm, defs, res2, root, def, imp, merged, cache, proc, hist, env>>

Reinject ==
    /\ pc = "injected"
    /\ res.err = NoErr
    /\ res2' = InjectFields(dm, res.fields)
    /\ pc' = "reinjected"
    /\ UNCHANGED <<dm, defs, res, root, def, imp, merged, cache, proc, hist, env>>

NextInject == Inject \/ Reinject

SpecInject == InitInject /\ [][NextInject]_vars

(***************************************************************************)
(* Properties of InjectFields (SpecInject).                                *)
(***************************************************************************)
\* Whether every import that injectFieldsWithRoot attempts on ds succeeds:
\* those of the external nodes it visits, which are the nodes with no
\* external ancestor.
RECURSIVE AllVisitedResolve(_, _, _)
AllVisitedResolve(m, r, ds) ==
    \A i \in 1..Len(ds) :
        LET p == buildFieldPath(r, ds[i])
        IN IF Has(ds[i], "external")
           THEN ~m.isNil
                /\ ds[i]["external"] \in DOMAIN m.schema
                /\ FindElementDefinition(p, m.schema[ds[i]["external"]]) # <<>>
           ELSE Has(ds[i], "fields") => AllVisitedResolve(m, p, ds[i]["fields"])

\* Whether no node of ds, at any depth, carries the external marker.
RECURSIVE NoExternalMarkers(_)
NoExternalMarkers(ds) ==
    \A i \in 1..Len(ds) :
        /\ ~Has(ds[i], "external")
        /\ Has(ds[i], "fields") => NoExternalMarkers(ds[i]["fields"])

\* Whether no node of ds, at any depth, is a group without fields.
RECURSIVE NoEmptyGroups(_)
NoEmptyGroups(ds) ==
    \A i \in 1..Len(ds) :
        /\ ~(Has(ds[i], "type") /\ ds[i]["type"] = "group"
             /\ (Has(ds[i], "fields") => ds[i]["fields"] = <<>>))
        /\ Has(ds[i], "fields") => NoEmptyGroups(ds[i]["fields"])

Succeeded == pc # "ready" /\ res.err = NoErr

C4_NoExternalLeft == Succeeded => NoExternalMarkers(res.fields)

\* C7: the tree returned by a successful InjectFields is pruned at every
\* depth: none of its nodes is a group with absent or empty fields.
C7_PrunedAtEveryDepth == Succeeded => NoEmptyGroups(res.fields)

\* C2: idempotence.  When the injected tree has no external marker left,
\* injecting it again succeeds with changed = false and the same tree.
C2_Idempotent ==
    (pc = "reinjected" /\ NoExternalMarkers(res.fields)) =>
        /\ res2.err = NoErr
        /\ ~res2.changed
        /\ res2.fields = res.fields

\* C10: changed is true exactly when the returned tree differs from the
\* input tree.
C10_ChangedIffDiffers == Succeeded => (res.changed <=> res.fields # defs)

(***************************************************************************)
(* SpecResolve: the external branch of the loop body on one node, in its   *)
(* steps: the import of the node's path, then the merge or the error       *)
(* return.                                                                 *)
(***************************************************************************)
Roots == {<<>>, <<"a">>, <<"a", Dot, "a">>, <<"b">>}

ExternalNodes ==
    {Node(nm, e, t, h, <<>>) :
        nm \in NodeNames, e \in {ecsSchemaName, "other"}, t \in LocalTypes,
        h \in BOOLEAN}

InitResolve ==
    /\ dm \in Managers
    /\ root \in Roots
    /\ def \in ExternalNodes
    /\ pc = "start"
    /\ imp = NoImport
    /\ merged = NoNode
    /\ IdleInject
    /\ IdleLoader

Import ==
    /\ pc = "start"
    /\ imp' = ImportField(dm, def["external"], buildFieldPath(root, def))
    /\ pc' = "imported"
    /\ UNCHANGED <<dm, defs, res, res2, root, def, merged, cache, proc, hist, env>>

Merge ==
    /\ pc = "imported"
    /\ imp.err = NoErr
    /\ merged' = mergeExternal(imp.def, def)
    /\ pc' = "merged"
    /\ UNCHANGED <<dm, defs, res, res2, root, def, imp, cache, proc, hist, env>>

Reject ==
    /\ pc = "imported"
    /\ imp.err # NoErr
    /\ pc' = "failed"
    /\ UNCHANGED <<dm, defs, res, res2, root, def, imp, merged, cache, proc, hist, env>>

NextResolve == Import \/ Merge \/ Reject

SpecResolve == InitResolve /\ [][NextResolve]_vars

\* Every definition of a schema with its dotted path.
RECURSIVE Entries(_, _)
Entries(prefix, schema) ==
    UNION {LET p == (IF prefix # <<>> THEN prefix \o <<Dot>> ELSE prefix)
                    \o schema[i].Name
           IN {<<p, schema[i]>>} \cup Entries(p, schema[i].MultiFields) :
           i \in 1..Len(schema)}

\* C1: the type-override law.  The merged type is constant_keyword when the
\* imported type is keyword and the local node declares constant_keyword; for
\* every other pair, a node without type included, it is the imported type.
C1_TypeOverrideLaw ==
    pc = "merged" =>
        merged["type"] =
            IF imp.def.Type = "keyword" /\ Has(def, "type")
               /\ def["type"] = "constant_keyword"
            THEN "constant_keyword"
            ELSE imp.def.Type

\* C1 witness: a keyword was imported for a local constant_keyword.
C1_Witness ==
    /\ pc = "merged"
    /\ imp.def.Type = "keyword"
    /\ Has(def, "type") /\ def["type"] = "constant_keyword"
    /\ merged["type"] = "constant_keyword"

\* C6: ImportField has one outcome, decided in this order: no manager, the
\* schema name is no key of the schema map, the path is not in the schema,
\* else the definition stored at the path.
C6_ImportOutcome ==
    pc # "start" =>
        LET path == buildFieldPath(root, def)
            name == def["external"]
        IN IF dm.isNil
           THEN imp.err.kind = "not_allowed" /\ imp.err.path = path
           ELSE IF name \notin DOMAIN dm.schema
           THEN imp.err.kind = "schema_undefined" /\ imp.err.schema = name
           ELSE IF \A e \in Entries(<<>>, dm.schema[name]) : e[1] # path
           THEN imp.err.kind = "not_found" /\ imp.err.path = path
           ELSE /\ imp.err = NoErr
                /\ \E e \in Entries(<<>>, dm.schema[name]) :
                        e[1] = path /\ e[2] = imp.def

\* C6 witness: a nested path was found in the schema.
C6_Witness ==
    /\ pc = "imported"
    /\ imp.err = NoErr
    /\ root # <<>>
    /\ imp.def.Name = def["name"]

(***************************************************************************)
(* The schema loader: readECSFieldsSchemaFile, as called by                *)
(* CreateFieldDependencyManager.  Each process creates managers in         *)
(* sequence; the processes share the cache directory.  A cached file is    *)
(* the sequence of the chunks written to it; the steps of a process are    *)
(* the system calls of the function.                                       *)
(***************************************************************************)
gitReferencePrefix == <<"g", "i", "t", "@">>

\* Variant: the prefix is cut off without being looked at.
asGitReferenceNoCheck(reference) ==
    [ref |-> SubSeq(reference, Len(gitReferencePrefix) + 1, Len(reference)),
     err |-> ""]

asGitReference(reference) ==
    IF ~HasPrefix(reference, gitReferencePrefix)
    THEN [ref |-> <<>>, err |-> "invalid_git_reference"]
    ELSE [ref |-> SubSeq(reference, Len(gitReferencePrefix) + 1, Len(reference)),
          err |-> ""]

\* The references a build manifest may give: none, a published tag, the same
\* tag without the prefix, and a tag that does not exist upstream.
References ==
    {<<>>, gitReferencePrefix \o <<"v", "1">>, <<"v", "1">>,
     gitReferencePrefix \o <<"x">>}

\* The Git references the schema host serves, and the body it serves.
Published == {<<"v", "1">>}

Body(gitReference) == [i \in 1..BodyChunks |-> <<gitReference, i>>]

\* What a write at chunk offset k leaves of file f: a file shorter than the
\* offset is filled with zeros up to it.
ZeroChunk == "zero"

WriteAt(f, k, c) ==
    [i \in 1..(IF Len(f) > k THEN Len(f) ELSE k) |->
        IF i = k THEN c ELSE IF i <= Len(f) THEN f[i] ELSE ZeroChunk]

Store(f, k, v) == [x \in (DOMAIN f) \cup {k} |-> IF x = k THEN v ELSE f[x]]

cachedSchemaPath(gitReference) ==
    <<"cache", ecsSchemaName, gitReference, "ecs_nested.yml">>

\* parseECSFieldsSchema, as far as the loader goes: a body cut between two
\* records still parses (an empty one to no definition), one with a hole of
\* zeros does not.
parseECSFieldsSchema(content) ==
    IF \E i \in 1..Len(content) : content[i] = ZeroChunk THEN "parse" ELSE ""

IdleProc ==
    [pc |-> "idle", ref |-> <<>>, gitRef |-> <<>>, content |-> <<>>,
     written |-> 0, reads |-> 0, fetches |-> 0, writes |-> 0, runs |-> 0,
     err |-> "", out |-> <<>>, rank |-> 0]

\* Whether the environment may fail the call at hand.
Outcomes == IF env.faults THEN {"ok", "fail"} ELSE {"ok"}

\* The return of readECSFieldsSchemaFile with an error; q is the state of
\* the processes at the return.
Failed(q, p, kind) ==
    /\ proc' = [q EXCEPT ![p].pc = "done", ![p].err = kind, ![p].out = <<>>]
    /\ UNCHANGED hist

\* The return of readECSFieldsSchemaFile with content, and its parse.  hist
\* counts the successful returns for each reference and keeps the bytes of
\* the first.
Returned(q, p, content) ==
    LET g == proc[p].gitRef
        n == IF g \in DOMAIN hist THEN hist[g].n + 1 ELSE 1
    IN IF parseECSFieldsSchema(content) # ""
       THEN Failed(q, p, parseECSFieldsSchema(content))
       ELSE /\ proc' = [q EXCEPT ![p].pc = "done", ![p].out = content,
                                 ![p].err = "", ![p].rank = n]
            /\ hist' = Store(hist, g,
                         [n |-> n,
                          bytes |-> IF n = 1 THEN content ELSE hist[g].bytes])

NotLoader == <<dm, defs, pc, res, res2, root, def, imp, merged, env>>

\* loadECSFieldsSchema up to asGitReference: an empty reference loads
\* nothing, a reference without the prefix is refused.
Start(p) ==
    /\ proc[p].pc \in {"idle", "done"}
    /\ proc[p].runs < MaxRuns
    /\ \E reference \in env.refs :
         LET fresh == [IdleProc EXCEPT !.ref = reference,
                                       !.runs = proc[p].runs + 1]
             git == asGitReference(reference)
         IN proc' = [proc EXCEPT ![p] =
                IF reference = <<>>
                THEN [fresh EXCEPT !.pc = "done"]
                ELSE IF git.err # ""
                THEN [fresh EXCEPT !.pc = "done", !.err = git.err]
                ELSE [fresh EXCEPT !.pc = "read", !.gitRef = git.ref]]
    /\ UNCHANGED <<cache, hist>>
    /\ UNCHANGED NotLoader

\* os.ReadFile of the cached schema.
ReadCache(p) ==
    /\ proc[p].pc = "read"
    /\ LET path == cachedSchemaPath(proc[p].gitRef)
           q == [proc EXCEPT ![p].reads = @ + 1]
       IN \E o \in Outcomes :
            IF o = "fail"
            THEN Failed(q, p, "read_cache")
            ELSE IF path \notin DOMAIN cache
            THEN proc' = [q EXCEPT ![p].pc = "fetch"] /\ UNCHANGED hist
            ELSE Returned(q, p, cache[path])
    /\ UNCHANGED cache
    /\ UNCHANGED NotLoader

\* http.Get and io.ReadAll of the schema.
Fetch(p) ==
    /\ proc[p].pc = "fetch"
    /\ LET q == [proc EXCEPT ![p].fetches = @ + 1]
       IN \E o \in Outcomes :
            IF o = "fail"
            THEN Failed(q, p, "download")
            ELSE IF proc[p].gitRef \notin Published
            THEN Failed(q, p, "unsatisfied")
            ELSE /\ proc' = [q EXCEPT ![p].pc = "mkdir",
                                      ![p].content = Body(proc[p].gitRef)]
                 /\ UNCHANGED hist
    /\ UNCHANGED cache
    /\ UNCHANGED NotLoader

\* os.MkdirAll of the cache directory.
Mkdir(p) ==
    /\ proc[p].pc = "mkdir"
    /\ \E o \in Outcomes :
         IF o = "fail"
         THEN Failed(proc, p, "mkdir")
         ELSE proc' = [proc EXCEPT ![p].pc = "open"] /\ UNCHANGED hist
    /\ UNCHANGED cache
    /\ UNCHANGED NotLoader

\* os.WriteFile, its open: the file is created, or truncated if it exists.
OpenFile(p) ==
    /\ proc[p].pc = "open"
    /\ LET q == [proc EXCEPT ![p].writes = @ + 1]
       IN \E o \in Outcomes :
            IF o = "fail"
            THEN Failed(q, p, "write_cache") /\ UNCHANGED cache
            ELSE /\ proc' = [q EXCEPT ![p].pc = "write", ![p].written = 0]
                 /\ cache' = Store(cache, cachedSchemaPath(proc[p].gitRef), <<>>)
                 /\ UNCHANGED hist
    /\ UNCHANGED NotLoader

\* os.WriteFile, one of its writes: the next chunk goes to the file at the
\* writer's offset; after the last the function returns the content.  A
\* write that fails leaves in the file what was written before it.
WriteChunk(p) ==
    /\ proc[p].pc = "write"
    /\ LET path == cachedSchemaPath(proc[p].gitRef)
           k == proc[p].written + 1
       IN \E o \in Outcomes :
            IF o = "fail"
            THEN Failed(proc, p, "write_cache") /\ UNCHANGED cache
            ELSE /\ cache' = [cache EXCEPT ![path] =
                                  WriteAt(@, k, proc[p].content[k])]
                 /\ IF k = Len(proc[p].content)
                    THEN Returned(proc, p, proc[p].content)
                    ELSE proc' = [proc EXCEPT ![p].written = k] /\ UNCHANGED hist
    /\ UNCHANGED NotLoader

NextLoader ==
    \/ \E p \in DOMAIN proc : Start(p)
    \/ \E p \in DOMAIN proc : ReadCache(p)
    \/ \E p \in DOMAIN proc : Fetch(p)
    \/ \E p \in DOMAIN proc : Mkdir(p)
    \/ \E p \in DOMAIN proc : OpenFile(p)
    \/ \E p \in DOMAIN proc : WriteChunk(p)

InitLoaderWith(procs, refs, faults) ==
    /\ cache = <<>>
    /\ proc = [p \in procs |-> IdleProc]
    /\ hist = <<>>
    /\ env = [faults |-> faults, refs |-> refs]
    /\ dm = NilDM
    /\ pc = "loader"
    /\ IdleInject
    /\ IdleResolve

\* One process, any reference, calls that may fail.
SpecLoader == InitLoaderWith({1}, References, TRUE) /\ [][NextLoader]_vars

\* Two processes resolving the published reference, no call fails.
SpecRace ==
    InitLoaderWith({1, 2}, {gitReferencePrefix \o <<"v", "1">>}, FALSE)
    /\ [][NextLoader]_vars

(***************************************************************************)
(* Properties of the schema loader (SpecLoader, SpecRace).                 *)
(***************************************************************************)
\* A process that has loaded the schema of a reference.
Loaded(p) == proc[p].pc = "done" /\ proc[p].err = "" /\ proc[p].ref # <<>>

LacksPrefix(reference) ==
    \E i \in 1..Len(gitReferencePrefix) :
        Len(reference) < i \/ reference[i] # gitReferencePrefix[i]

\* C8: a non-empty reference without the git@ prefix fails the creation of
\* the manager with the reference error, before any read of the cache, any
\* fetch and any write of the cache.
C8_BadReferenceRefused ==
    \A p \in DOMAIN proc :
        (proc[p].ref # <<>> /\ LacksPrefix(proc[p].ref)) =>
            /\ proc[p].pc = "done"
            /\ proc[p].err = "invalid_git_reference"
            /\ proc[p].reads = 0
            /\ proc[p].fetches = 0
            /\ proc[p].writes = 0

\* C8 witness: the reference v1 was refused after an earlier creation has
\* filled the cache.
C8_Witness ==
    \E p \in DOMAIN proc :
        /\ proc[p].ref = <<"v", "1">>
        /\ proc[p].pc = "done"
        /\ proc[p].err = "invalid_git_reference"
        /\ cachedSchemaPath(<<"v", "1">>) \in DOMAIN cache

\* C3: cache correctness in one process.  The first successful resolution
\* of a reference performs one fetch and one cache write; every later one of
\* the same reference performs none and returns the same bytes.
C3_CacheCorrectness ==
    \A p \in DOMAIN proc :
        Loaded(p) =>
            IF proc[p].rank = 1
            THEN proc[p].fetches = 1 /\ proc[p].writes = 1
            ELSE /\ proc[p].fetches = 0
                 /\ proc[p].writes = 0
                 /\ proc[p].out = hist[proc[p].gitRef].bytes

\* C9: benign cache races.  Every invocation that returns successfully
\* returns the complete schema body, and once no writer is at work the cache
\* file holds the body the last writer wrote.
C9_RaceKeepsBodiesComplete ==
    /\ \A p \in DOMAIN proc :
          Loaded(p) => proc[p].out = Body(proc[p].gitRef)
    /\ \A g \in Published :
          (/\ cachedSchemaPath(g) \in DOMAIN cache
           /\ \A p \in DOMAIN proc : proc[p].pc \notin {"open", "write"})
          => cache[cachedSchemaPath(g)] = Body(g)

====
